---- MODULE Spec2Model ----
(***************************************************************************)
(* Model of src/src/async_throttler.py: the AsyncThrottler sliding-window  *)
(* limiter, its asyncio queue, and the process_requests consume loop.      *)
(*                                                                         *)
(* asyncio runs coroutines cooperatively on one thread: a coroutine is     *)
(* interrupted only where it awaits something that really suspends.  The   *)
(* consumer therefore has these positions (pc):                            *)
(*   "loop"     at the while test of process_requests (line 70)            *)
(*   "get"      suspended in queue.get() on an empty queue (line 71)       *)
(*   "throttle" holding a popped request, entering throttle() (line 80)    *)
(*   "sleep"    suspended in asyncio.sleep inside throttle() (line 53)     *)
(*   "request"  suspended in session.get / response.text (lines 96-97)     *)
(*   "done"     process_requests has returned                               *)
(*   "crashed"  process_requests has raised (only with max_requests <= 0)  *)
(* Time is an integer clock `now` standing for loop.time().                *)
(***************************************************************************)
EXTENDS Integers, Sequences, FiniteSets, TLC

\* Bounds of the model.
MaxRequestsBound == 2   \* max_requests ranges over 1..MaxRequestsBound
MaxWindow == 2          \* time_window ranges over 1..MaxWindow
MaxTime == 2            \* the clock ticks freely up to MaxTime
MaxItems == 3           \* RequestWrapper objects ever enqueued
MaxStops == 2           \* "STOP" sentinels ever enqueued

VARIABLES
    max_requests,          \* self.max_requests
    time_window,           \* self.time_window
    request_times,         \* self.request_times (deque, oldest at index 1)
    queue,                 \* self.queue (asyncio.Queue, head at index 1)
    stop_signal_received,  \* self.stop_signal_received
    pc,                    \* position of the process_requests task
    request,               \* local `request` of process_requests (None between items)
    current_time,          \* local `current_time` of throttle() (0 outside a sleep)
    time_to_wait,          \* local `time_to_wait` of throttle() (0 outside a sleep)
    now,                   \* the event loop's clock
    enqueued,              \* history: number of RequestWrappers put so far; the k-th
                           \*          one put has url k
    stopsSent,             \* history: number of "STOP" sentinels put so far
    beforeStop,            \* history: number of RequestWrappers put before the first
                           \*          "STOP" was put (= enqueued while none was)
    transportLog,          \* history: key of each request handed to session.get, in order
    recentStarts,          \* history: start times of the transport calls of the last
                           \*          time_window time units (those after now - time_window)
    lastResult,            \* history: [url, outcome, callback, called] of the
                           \*          make_request that ended last (url 0 before the first)
    callbackLog            \* history: url of each callback invocation

vars == <<max_requests, time_window, request_times, queue, stop_signal_received,
          pc, request, current_time, time_to_wait, now,
          enqueued, stopsSent, beforeStop, transportLog, recentStarts,
          lastResult, callbackLog>>

config == <<max_requests, time_window>>
accepted == <<enqueued, stopsSent, beforeStop>>
history == <<accepted, transportLog, recentStarts, lastResult, callbackLog>>

----------------------------------------------------------------------------
\* Values

\* The "STOP" sentinel string a producer puts on the queue.
STOP == [sentinel |-> "STOP"]

\* No request held (the local is unbound / stale).
None == [sentinel |-> "None"]

\* RequestWrapper(url, callback).  Only the url is kept in the object here:
\* self.callback is written once (line 15) and read once (line 24), so whether
\* a callback was given is drawn where it is read, in MakeRequest.
RequestWrapper(url) == [url |-> url]

\* What the transport can do with one GET:
\*   "ok"         a response with a success status, body read
\*   "bad_status" a response with a non-success status (4xx/5xx), body read;
\*                the session is built without raise_for_status, so no raise
\*   "error"      session.get or response.text raises (network failure)
Outcomes == {"ok", "bad_status", "error"}

Max(a, b) == IF a >= b THEN a ELSE b

\* How the histories name a queue element: a wrapper by its url (1, 2, ...),
\* the sentinel by 0.
Key(r) == IF r = STOP THEN 0 ELSE r.url

----------------------------------------------------------------------------
\* Pure parts of the code

\* No eviction at all: every timestamp stays in the deque.
EvictNone(times, t, w) == times

\* Eviction with "if" for "while": at most one stale timestamp is popped.
EvictOnce(times, t, w) ==
    IF times # <<>> /\ t - Head(times) >= w THEN Tail(times) ELSE times

\* Eviction with ">" for ">=": a timestamp exactly time_window old stays.
EvictStrict(times, t, w) ==
    IF times # <<>> /\ t - Head(times) > w THEN Tail(times) ELSE times

\* throttle(), lines 48-49: pop from the left while the oldest timestamp is
\* at least time_window old.
RECURSIVE Evict(_, _, _)
Evict(times, t, w) ==
    IF times # <<>> /\ t - Head(times) >= w
    THEN Evict(Tail(times), t, w)
    ELSE times

\* The test off by one: waits when one slot is still free.
ShouldWaitEarly(times, n) == Len(times) + 1 >= n

\* throttle(), line 51: the test that sends the call into the sleeping branch.
ShouldWait(times, n) == Len(times) >= n

\* throttle(), line 52: time_window - (current_time - request_times[0]).
TimeToWait(times, t, w) == w - (t - Head(times))

\* The delay with min written for max: never a positive sleep.
SleepDelayMin(ttw) == IF ttw <= 0 THEN ttw ELSE 0

\* throttle(), line 53: the delay handed to asyncio.sleep.
SleepDelay(ttw) == Max(0, ttw)

\* throttle(), line 55: the value appended to request_times is the clock
\* reading taken on entry (ct), not the clock after the sleep (t).
RecordedTime(ct, t) == ct

\* A queue built with maxsize=1: put() waits while an element is queued.
QueueFullAtOne(q) == Len(q) >= 1

\* Line 37: asyncio.Queue() is built without maxsize, so it is never full
\* and put() (line 63) never waits.
QueueFull(q) == FALSE

\* A put that inserts at the head (a LIFO hand-off).
QueuePutFront(q, x) == <<x>> \o q

\* asyncio.Queue (FIFO, unbounded): put appends at the tail, get takes the head.
QueuePut(q, x) == Append(q, x)
QueueHead(q) == Head(q)
\* A get that leaves the head in place.
QueuePeek(q) == q
QueueAfterGet(q) == Tail(q)

\* The while condition with `and` for `or`.
LoopContinuesAnd == (~stop_signal_received) /\ queue # <<>>

\* The while condition without the drain: the loop ends as soon as the
\* flag is set.
LoopContinuesNoDrain == ~stop_signal_received

\* A loop that never ends (while True without a break).
LoopForever == TRUE

\* process_requests, line 70: the while condition.
LoopContinues == (~stop_signal_received) \/ queue # <<>>

\* A sentinel test that never matches.
IsStopNever(r) == FALSE

\* process_requests, line 73: request == "STOP".
IsStop(r) == r = STOP

\* A callback that is run whatever the transport did (as from a finally).
CallbackAlways(callback, outcome) == callback

\* make_request / handle_response, lines 95-100 and 23-25: the callback runs
\* when session.get returned a response and its body was read (whatever the
\* status), and a callback was given (callback is TRUE for a function, FALSE
\* for None).
CallbackInvoked(callback, outcome) == outcome # "error" /\ callback

\* A make_request whose transport error escapes and ends process_requests.
AfterMakeRequestRaise(outcome) == IF outcome = "error" THEN "done" ELSE "loop"

\* make_request, lines 95-100: every Exception is caught and printed, so the
\* loop goes on to task_done() and the next while test whatever the outcome.
AfterMakeRequest(outcome) == "loop"

----------------------------------------------------------------------------
\* Helpers over the history

\* the start times still inside the window that ends at time t
StillRecent(starts, t, w) == SelectSeq(starts, LAMBDA a : t - a < w)

----------------------------------------------------------------------------
\* Initial states: the object as __init__ leaves it (lines 35-39), with the
\* process_requests task created and not yet run.

InitState ==
    /\ request_times = <<>>
    /\ queue = <<>>
    /\ stop_signal_received = FALSE
    /\ pc = "loop"
    /\ request = None
    /\ current_time = 0
    /\ time_to_wait = 0
    /\ now = 0
    /\ enqueued = 0
    /\ stopsSent = 0
    /\ beforeStop = 0
    /\ transportLog = <<>>
    /\ recentStarts = <<>>
    /\ lastResult = [url |-> 0, outcome |-> "none", callback |-> FALSE,
                     called |-> FALSE]
    /\ callbackLog = <<>>

Init ==
    /\ max_requests \in 1..MaxRequestsBound
    /\ time_window \in 1..MaxWindow
    /\ InitState

----------------------------------------------------------------------------
\* Producers

\* add_request, lines 57-63: queue.put on an unbounded queue never suspends.
add_request(r) ==
    /\ ~QueueFull(queue)
    /\ queue' = QueuePut(queue, r)
    /\ enqueued' = IF r = STOP THEN enqueued ELSE enqueued + 1
    /\ stopsSent' = IF r = STOP THEN stopsSent + 1 ELSE stopsSent
    /\ beforeStop' = IF r = STOP \/ stopsSent > 0 THEN beforeStop ELSE beforeStop + 1
    /\ UNCHANGED <<config, request_times, stop_signal_received, pc, request,
                   current_time, time_to_wait, now, transportLog, recentStarts,
                   lastResult, callbackLog>>

\* A producer runs only while the consumer is not between queue.get()
\* returning and throttle() reading the clock: nothing awaits there.
ProducerMayRun == pc # "throttle"

\* A producer enqueues a fresh RequestWrapper.
AddRequest ==
    /\ ProducerMayRun
    /\ enqueued < MaxItems
    /\ add_request(RequestWrapper(enqueued + 1))

\* A producer enqueues the "STOP" sentinel (example main, line 126).
AddStop ==
    /\ ProducerMayRun
    /\ stopsSent < MaxStops
    /\ add_request(STOP)

----------------------------------------------------------------------------
\* The consumer: process_requests

\* Line 70, condition false: the loop ends and the coroutine returns.
ExitLoop ==
    /\ pc = "loop"
    /\ ~LoopContinues
    /\ pc' = "done"
    /\ UNCHANGED <<config, request_times, queue, stop_signal_received, request,
                   current_time, time_to_wait, now, history>>

\* Lines 70-71 with an empty queue: queue.get() suspends.
GetSuspends ==
    /\ pc = "loop"
    /\ LoopContinues
    /\ queue = <<>>
    /\ pc' = "get"
    /\ UNCHANGED <<config, request_times, queue, stop_signal_received, request,
                   current_time, time_to_wait, now, history>>

\* queue.get() can return: from the while test with a non-empty queue, or
\* from a suspended get once something was put.
GetReturns ==
    /\ queue # <<>>
    /\ \/ pc = "loop" /\ LoopContinues
       \/ pc = "get"

\* Lines 71-77: the popped element is "STOP".
GetStop ==
    /\ GetReturns
    /\ IsStop(QueueHead(queue))
    /\ queue' = QueueAfterGet(queue)
    /\ stop_signal_received' = TRUE
    /\ request' = None
    /\ pc' = "loop"
    /\ UNCHANGED <<config, request_times, current_time, time_to_wait, now,
                   history>>

\* Lines 71-80: the popped element is not "STOP"; throttle() is entered.
GetRequest ==
    /\ GetReturns
    /\ ~IsStop(QueueHead(queue))
    /\ queue' = QueueAfterGet(queue)
    /\ request' = QueueHead(queue)
    /\ pc' = "throttle"
    /\ UNCHANGED <<config, request_times, stop_signal_received, current_time,
                   time_to_wait, now, history>>

\* A dispatch that is started as a task of its own and not awaited: the loop
\* goes on at once.
AfterThrottleDetached == "loop"

\* Lines 80-83: throttle() has returned and make_request is awaited; the
\* consumer stays there until the transport call has ended.
AfterThrottle == "request"

\* Line 83 / 96: session.get is started for the held request at time t.
StartTransport(t) ==
    /\ transportLog' = Append(transportLog, Key(request))
    /\ recentStarts' = Append(StillRecent(recentStarts, t, time_window), t)

\* throttle(), lines 45-55, branch without sleep, then line 83.
ThrottleNoWait ==
    /\ pc = "throttle"
    /\ LET kept == Evict(request_times, now, time_window) IN
          /\ ~ShouldWait(kept, max_requests)
          /\ request_times' = Append(kept, RecordedTime(now, now))
    /\ pc' = AfterThrottle
    /\ StartTransport(now)
    /\ UNCHANGED <<config, queue, stop_signal_received, request, current_time,
                   time_to_wait, now, accepted, lastResult, callbackLog>>

\* throttle(), lines 45-53: the window is full, asyncio.sleep is awaited.
ThrottleSleep ==
    /\ pc = "throttle"
    /\ LET kept == Evict(request_times, now, time_window) IN
          /\ ShouldWait(kept, max_requests)
          /\ kept # <<>>
          /\ request_times' = kept
          /\ time_to_wait' = TimeToWait(kept, now, time_window)
    /\ current_time' = now
    /\ pc' = "sleep"
    /\ UNCHANGED <<config, queue, stop_signal_received, request, now, history>>

\* throttle(), line 52 with an empty deque: request_times[0] raises
\* IndexError, which nothing in process_requests catches.
ThrottleIndexError ==
    /\ pc = "throttle"
    /\ LET kept == Evict(request_times, now, time_window) IN
          /\ ShouldWait(kept, max_requests)
          /\ kept = <<>>
          /\ request_times' = kept
    /\ current_time' = now
    /\ pc' = "crashed"
    /\ UNCHANGED <<config, queue, stop_signal_received, request, time_to_wait,
                   now, history>>

\* throttle(), lines 53-55, then line 83: the sleep ends no earlier than its
\* deadline (the clock is moved to the deadline if it is not there yet), the
\* timestamp is appended, and the transport call starts.
SleepReturns ==
    /\ pc = "sleep"
    /\ LET woken == Max(now, current_time + SleepDelay(time_to_wait)) IN
          /\ now' = woken
          /\ request_times' = Append(request_times, RecordedTime(current_time, woken))
          /\ StartTransport(woken)
    /\ current_time' = 0
    /\ time_to_wait' = 0
    /\ pc' = AfterThrottle
    /\ UNCHANGED <<config, queue, stop_signal_received, request, accepted,
                   lastResult, callbackLog>>

\* make_request, lines 88-100, then task_done (line 86): the transport ends
\* with one of the outcomes, for a wrapper built with or without a callback.
MakeRequest ==
    /\ pc = "request"
    /\ \E outcome \in Outcomes, callback \in BOOLEAN :
          /\ lastResult' = [url |-> Key(request), outcome |-> outcome,
                             callback |-> callback,
                             called |-> CallbackInvoked(callback, outcome)]
          /\ callbackLog' = IF CallbackInvoked(callback, outcome)
                            THEN Append(callbackLog, Key(request))
                            ELSE callbackLog
          /\ pc' = AfterMakeRequest(outcome)
    /\ request' = None
    /\ UNCHANGED <<config, request_times, queue, stop_signal_received,
                   current_time, time_to_wait, now, accepted, transportLog,
                   recentStarts>>

\* Time passes while the consumer is suspended.
Tick ==
    /\ pc \in {"get", "sleep", "request"}
    /\ now < MaxTime
    /\ now' = now + 1
    /\ recentStarts' = StillRecent(recentStarts, now + 1, time_window)
    /\ UNCHANGED <<config, request_times, queue, stop_signal_received, pc,
                   request, current_time, time_to_wait, accepted, transportLog,
                   lastResult, callbackLog>>

Consumer ==
    \/ ExitLoop
    \/ GetSuspends
    \/ GetStop
    \/ GetRequest
    \/ ThrottleNoWait
    \/ ThrottleSleep
    \/ SleepReturns
    \/ MakeRequest

Next ==
    \/ AddRequest
    \/ AddStop
    \/ Consumer
    \/ Tick

Spec == Init /\ [][Next]_vars

\* The event loop runs the consumer task whenever it can take a step: a
\* get() on a non-empty queue returns, a sleep ends, a transport call returns
\* or fails.  Producers are under no obligation to enqueue anything.
\* The fair specification keeps one window length: the length of a sleep
\* does not bear on whether the loop ends, and the graph TLC searches for
\* fair cycles stays small.
InitFair == Init /\ time_window = 1

FairSpec == InitFair /\ [][Next]_vars /\ WF_vars(Consumer)

\* Every configuration __init__ accepts (it checks nothing, lines 35-36),
\* the ones the documentation calls invalid included.
InitAnyConfig ==
    /\ max_requests \in 0..MaxRequestsBound
    /\ time_window \in (-1)..MaxWindow
    /\ InitState

NextAnyConfig ==
    \/ Next
    \/ ThrottleIndexError

SpecAnyConfig == InitAnyConfig /\ [][NextAnyConfig]_vars

----------------------------------------------------------------------------
\* Properties

InRange(s) == {s[i] : i \in 1..Len(s)}
Increasing(s) == \A i, j \in 1..Len(s) : i < j => s[i] < s[j]
Last(s) == s[Len(s)]

\* C1: with max_requests >= 1 and time_window > 0, no more than max_requests
\* transport calls start inside any trailing interval of length time_window.
\* recentStarts holds exactly the starts later than now - time_window, and a
\* start is added to it at the instant it happens, so a window that holds too
\* many starts shows up in the state in which its last start is made.
C1_RateLimit ==
    (max_requests >= 1 /\ time_window > 0) => Len(recentStarts) <= max_requests

\* C2: request_times never holds more than max_requests timestamps that lie
\* within one interval of length time_window.  The deque is oldest first, so
\* this says that entries max_requests apart are at least time_window apart.
C2_RecordedWindow ==
    \A i \in 1..Len(request_times) :
        i + max_requests <= Len(request_times) =>
            request_times[i + max_requests] - request_times[i] >= time_window

\* C3: transport calls, and the callbacks of the wrappers that get one, happen
\* in the order in which the wrappers were enqueued (the k-th wrapper enqueued
\* has url k, so enqueue order is url order).
C3_FifoOrder == Increasing(transportLog) /\ Increasing(callbackLog)

C3_Witness ==
    /\ Len(transportLog) >= 3
    /\ Len(callbackLog) >= 2
    /\ stopsSent >= 1

\* C4: when process_requests has terminated, every wrapper that was enqueued
\* before the first "STOP" has had its transport call made and ended.
C4_DrainComplete ==
    (pc = "done" /\ stopsSent > 0) =>
        /\ 1..beforeStop \subseteq InRange(transportLog)
        /\ request = None

C4_Witness ==
    /\ pc = "done"
    /\ stopsSent >= 1
    /\ beforeStop >= 2
    /\ Len(transportLog) >= beforeStop

\* Where each wrapper enqueued so far is: still queued, held by the consumer,
\* or handed to the transport.
Queued(k) == \E i \in 1..Len(queue) : queue[i] = RequestWrapper(k)
Held(k) == request = RequestWrapper(k)
Dispatched(k) == k \in InRange(transportLog)

\* C5: a transport error for one item neither ends process_requests nor makes
\* it skip anything: the step in which make_request ends in an error leads
\* back to the while test with the queue and the stop flag untouched; no
\* wrapper ever leaves the queue without being handed to the transport;
\* the loop is left only with the stop flag set and the queue empty; and an
\* item whose own transport succeeds and that has a callback gets it called.
C5_FailureStep ==
    (pc = "request" /\ pc' # "request" /\ lastResult'.outcome = "error") =>
        /\ pc' = "loop"
        /\ queue' = queue
        /\ stop_signal_received' = stop_signal_received
        /\ callbackLog' = callbackLog

C5_ExitStep ==
    (pc # "done" /\ pc' = "done") => (stop_signal_received /\ queue = <<>>)

C5_NothingSkipped ==
    /\ \A k \in 1..enqueued : Queued(k) \/ Held(k) \/ Dispatched(k)
    /\ (lastResult.outcome = "ok" /\ lastResult.callback) =>
          (lastResult.called /\ callbackLog # <<>>
             /\ Last(callbackLog) = lastResult.url)

C5_Isolation ==
    /\ [][C5_FailureStep /\ C5_ExitStep]_vars
    /\ []C5_NothingSkipped

\* An item failed and the next one is with the transport.
C5_Witness ==
    /\ lastResult.outcome = "error"
    /\ pc = "request"
    /\ Key(request) = lastResult.url + 1
    /\ queue # <<>>

\* C6 as stated: the callback is invoked only for a successful outcome, never
\* for an error raised by the transport nor for a non-success status.
C6_OnlyOnSuccess ==
    /\ lastResult.called => lastResult.outcome = "ok"
    /\ lastResult.called <=>
          (callbackLog # <<>> /\ Last(callbackLog) = lastResult.url)

\* C6 amended: the callback is invoked only when the transport returned a
\* response (success or non-success status) for a wrapper that has one; it is
\* never invoked when the transport raised.
C6_NeverOnError ==
    /\ lastResult.called =>
          (lastResult.outcome \in {"ok", "bad_status"} /\ lastResult.callback)
    /\ lastResult.called <=>
          (callbackLog # <<>> /\ Last(callbackLog) = lastResult.url)

\* A wrapper with a callback whose transport raised: no callback.
C6_Witness ==
    /\ lastResult.outcome = "error"
    /\ lastResult.callback
    /\ ~lastResult.called
    /\ lastResult.url \notin InRange(callbackLog)

\* C7: no wrapper is handed to the transport twice and no callback is invoked
\* twice.
C7_NoDuplication ==
    /\ \A i, j \in 1..Len(transportLog) :
          i # j => transportLog[i] # transportLog[j]
    /\ \A i, j \in 1..Len(callbackLog) :
          i # j => callbackLog[i] # callbackLog[j]
    /\ InRange(callbackLog) \subseteq InRange(transportLog)

C7_Witness ==
    /\ Len(transportLog) = MaxItems
    /\ Len(callbackLog) = MaxItems
    /\ pc = "done"

\* C8: however many "STOP" sentinels are enqueued, process_requests ends at
\* most once and stays ended (a sentinel that arrives after the end changes
\* nothing but the queue), it never raises, no sentinel reaches throttle() or
\* the transport, and from the first sentinel popped until the end the
\* consumer is never blocked: it always has a step to take.
C8_StaysDone ==
    pc = "done" =>
        /\ pc' = "done"
        /\ UNCHANGED <<request_times, stop_signal_received, request,
                       transportLog, callbackLog, lastResult>>

C8_NoStopDispatched ==
    /\ pc \in {"throttle", "sleep", "request"} => (request # STOP /\ request # None)
    /\ 0 \notin InRange(transportLog)
    /\ pc # "crashed"
    /\ pc = "done" => stop_signal_received
    /\ (stop_signal_received /\ pc # "done") => (pc # "get" /\ ENABLED Consumer)

C8_IdempotentStop ==
    /\ [][C8_StaysDone]_vars
    /\ []C8_NoStopDispatched

\* A second sentinel arrived after process_requests had ended.
C8_Witness ==
    /\ pc = "done"
    /\ stopsSent >= 2
    /\ queue # <<>>
    /\ Head(queue) = STOP

\* C9: with max_requests <= 0 or time_window < 0 the constructor fails, so
\* the loop never runs and throttle() is never called.
C9_InvalidConfigNeverRuns ==
    (max_requests <= 0 \/ time_window < 0) =>
        /\ pc \notin {"throttle", "sleep", "request", "crashed", "done"}
        /\ ~stop_signal_received
        /\ transportLog = <<>>

\* C10: a throttle() call that finds fewer than max_requests timestamps after
\* eviction appends the current time and returns without sleeping; and no
\* sleep happens before max_requests transport calls have been made.
C10_FastStep ==
    (pc = "throttle"
       /\ Len(Evict(request_times, now, time_window)) < max_requests) =>
        /\ pc' = "request"
        /\ now' = now
        /\ request_times' = Append(Evict(request_times, now, time_window), now)

C10_NoEarlySleep == pc = "sleep" => Len(transportLog) >= max_requests

C10_ZeroWait ==
    /\ [][C10_FastStep]_vars
    /\ []C10_NoEarlySleep

\* A call that went through without sleeping because eviction made room.
C10_Witness ==
    /\ pc = "request"
    /\ Len(transportLog) > max_requests
    /\ Len(request_times) <= max_requests
    /\ Len(request_times) >= 2

\* C11 as stated: once "STOP" has been popped no transport call is made any
\* more.  The flag is set at the while test with nothing in flight, so a
\* transport call in progress with the flag set is one made after the pop.
C11_NoDispatchAfterStop == stop_signal_received => pc # "request"

\* C11 amended: once "STOP" has been popped, no transport call is made for a
\* wrapper enqueued before the first "STOP" (they were all dispatched before
\* it was popped) and none once the loop has ended; the wrappers enqueued
\* after the sentinel that the drain finds in the queue are still dispatched.
C11_OnlyDrainAfterStop ==
    /\ stop_signal_received =>
            /\ 1..beforeStop \subseteq InRange(transportLog)
            /\ pc \in {"throttle", "sleep", "request"} =>
                    Key(request) > beforeStop
    /\ pc = "done" => request = None

\* A wrapper enqueued after the sentinel is with the transport during drain.
C11_Witness ==
    /\ stop_signal_received
    /\ pc = "request"
    /\ Key(request) > beforeStop
    /\ beforeStop >= 1

\* C12 as stated: when process_requests has terminated, every wrapper that
\* was enqueued after the first "STOP" has been dispatched and no wrapper is
\* left in the queue.
C12_AllAfterStopDispatched ==
    pc = "done" =>
        /\ (beforeStop + 1)..enqueued \subseteq InRange(transportLog)
        /\ \A i \in 1..Len(queue) : queue[i] = STOP

\* C12 amended: every wrapper enqueued after the "STOP" and before the while
\* test that ends the loop is dispatched before process_requests terminates
\* (at that test the queue is empty and every wrapper enqueued so far has
\* been dispatched); a wrapper enqueued after the loop has ended stays in the
\* queue and is never dispatched.
C12_ExitStep ==
    (pc # "done" /\ pc' = "done") =>
        /\ queue = <<>>
        /\ 1..enqueued \subseteq InRange(transportLog)
        /\ request = None

C12_LeftBehind ==
    pc = "done" =>
        \A k \in 1..enqueued : Dispatched(k) # Queued(k)

C12_DrainUntilExit ==
    /\ [][C12_ExitStep]_vars
    /\ []C12_LeftBehind

\* The loop has ended after dispatching a wrapper enqueued behind the
\* sentinel, and a later one was left in the queue.
C12_Witness ==
    /\ pc = "done"
    /\ beforeStop < Len(transportLog)
    /\ Len(transportLog) < enqueued

\* C13: with max_requests >= 1, once a "STOP" has been enqueued, and given
\* that the consumer is scheduled fairly and every transport call ends,
\* process_requests eventually terminates and stays terminated.
C13_Terminates == <>[](stopsSent >= 1 => pc = "done")

\* The loop has ended after waiting out a throttle sleep and draining a
\* wrapper enqueued behind the sentinel.
C13_Witness ==
    /\ pc = "done"
    /\ now >= 1
    /\ Len(request_times) > max_requests
    /\ beforeStop < Len(transportLog)

\* C14: dispatch is serialized.  A wrapper is held exactly while the consumer
\* is between its pop and the end of its transport call, every transport call
\* started earlier has ended, and while a throttle sleep or a transport call
\* is in progress the consumer pops nothing, does not touch the flag and does
\* not leave the loop: its only step is the end of that sleep or call.
C14_OneInFlight ==
    /\ (pc \in {"throttle", "sleep", "request"}) <=> (request # None)
    /\ transportLog # <<>> =>
          IF pc = "request"
          THEN /\ Last(transportLog) = Key(request)
               /\ lastResult.url = Last(transportLog) - 1
          ELSE lastResult.url = Last(transportLog)

C14_InProgressStep ==
    (pc \in {"sleep", "request"}) =>
        /\ \E n \in 0..1 : Len(queue') = Len(queue) + n
        /\ stop_signal_received' = stop_signal_received
        /\ request_times' # request_times => (pc = "sleep" /\ pc' = "request")
        /\ \/ pc' = pc /\ request' = request
           \/ pc = "sleep" /\ pc' = "request" /\ request' = request
           \/ pc = "request" /\ pc' = "loop" /\ request' = None

C14_Serialized ==
    /\ [][C14_InProgressStep]_vars
    /\ []C14_OneInFlight

\* The next wrapper and one more element wait in the queue while the
\* transport call of the wrapper before them is in progress.
C14_Witness ==
    /\ pc = "request"
    /\ Len(queue) >= 2
    /\ queue[1] # STOP
    /\ Key(request) = Key(queue[1]) - 1

\* C15: when at least max_requests timestamps remain after eviction,
\* throttle() called at time current_time computes the wait
\* time_window - (current_time - oldest) from the head of request_times; the
\* wait is strictly positive and at most time_window, and the transport call
\* that follows the sleep starts no earlier than oldest + time_window.
C15_WaitComputed ==
    pc = "sleep" =>
        /\ Len(request_times) >= max_requests
        /\ time_to_wait = time_window - (current_time - request_times[1])
        /\ 0 < time_to_wait
        /\ time_to_wait <= time_window
        /\ now >= current_time

C15_WakeStep ==
    (pc = "sleep" /\ pc' # "sleep") =>
        /\ now' >= current_time + time_to_wait
        /\ now' >= request_times[1] + time_window
        /\ Len(transportLog') = Len(transportLog) + 1
        /\ Last(recentStarts') = now'

C15_SleepUntilWindowOpens ==
    /\ [][C15_WakeStep]_vars
    /\ []C15_WaitComputed

\* A sleep for the rest of a window that has partly elapsed: the oldest
\* timestamp is older than the call and the wait shorter than the window.
C15_Witness ==
    /\ pc = "sleep"
    /\ request_times[1] < current_time
    /\ time_to_wait < time_window
    /\ Len(request_times) >= 2

\* C16: with max_requests >= 1, at the instant just before throttle()
\* appends a timestamp request_times holds at most max_requests entries (in
\* the sleeping branch the deque waits in that state for the sleep to end),
\* so its length never exceeds max_requests + 1.
C16_LengthBound ==
    /\ pc = "sleep" => Len(request_times) <= max_requests
    /\ Len(request_times) <= max_requests + 1
    /\ Len(Evict(request_times, now, time_window)) <= max_requests

\* The deque is at its largest: a timestamp was appended after a sleep.
C16_Witness ==
    /\ Len(request_times) = max_requests + 1
    /\ pc = "request"
    /\ max_requests >= 2

\* C17: request_times is ordered oldest first, and right after the eviction
\* of a throttle() call made at time now every timestamp left is in the
\* window: now - time_window < ts <= now.
C17_Ordered ==
    /\ \A i \in 1..Len(request_times) : \A j \in i..Len(request_times) :
          request_times[i] <= request_times[j]
    /\ \A i \in 1..Len(request_times) : request_times[i] <= now

C17_Fresh(times, t) ==
    \A i \in 1..Len(times) : t - time_window < times[i] /\ times[i] <= t

C17_EvictionStep ==
    pc = "throttle" =>
        /\ C17_Fresh(Evict(request_times, now, time_window), now)
        /\ pc' = "sleep" => C17_Fresh(request_times', now)
        /\ pc' = "request" => C17_Fresh(request_times', now)
        /\ \A i \in 1..Len(request_times) :
              now - time_window < request_times[i] =>
                  \E j \in 1..Len(request_times') :
                      request_times'[j] = request_times[i]

C17_OrderedAndFresh ==
    /\ [][C17_EvictionStep]_vars
    /\ []C17_Ordered

\* Eviction has removed stale timestamps and kept two fresh ones that
\* differ.
C17_Witness ==
    /\ pc \in {"sleep", "request"}
    /\ Len(request_times) >= 2
    /\ request_times[1] < request_times[2]
    /\ Len(transportLog) > Len(request_times)

\* C18: the dispatcher only moves Running -> Draining -> Stopped.  The flag
\* is set only by popping "STOP" and never reset; the loop ends only at a
\* while test with the flag set and the queue empty, never while the flag is
\* false, however long the queue stays empty.
Phase ==
    IF pc = "done" THEN "Stopped"
    ELSE IF stop_signal_received THEN "Draining"
    ELSE "Running"

C18_PhaseStep ==
    /\ <<Phase, Phase'>> \in
          {<<"Running", "Running">>, <<"Running", "Draining">>,
           <<"Draining", "Draining">>, <<"Draining", "Stopped">>,
           <<"Stopped", "Stopped">>}
    /\ stop_signal_received => stop_signal_received'
    /\ (~stop_signal_received /\ stop_signal_received') =>
          /\ queue # <<>>
          /\ Head(queue) = STOP
          /\ queue' = Tail(queue)
    /\ (pc # "done" /\ pc' = "done") =>
          /\ pc = "loop"
          /\ stop_signal_received
          /\ queue = <<>>

C18_NoEarlyExit ==
    /\ pc = "done" => stop_signal_received
    /\ ~stop_signal_received => ~ENABLED ExitLoop

C18_Phases ==
    /\ [][C18_PhaseStep]_vars
    /\ []C18_NoEarlyExit

\* The loop has ended after the consumer waited on the empty queue while
\* time passed, with nothing ever dispatched.
C18_Witness ==
    /\ pc = "done"
    /\ now >= 1
    /\ transportLog = <<>>
    /\ enqueued = 0

\* C19: add_request only appends one element at the tail of the queue, in
\* every dispatcher state and without waiting, and leaves request_times and
\* the flag alone; popping "STOP" sets the flag, records no timestamp, does
\* not sleep and dispatches nothing.
C19_PutStep ==
    Len(queue') > Len(queue) =>
        /\ \E r \in {STOP, RequestWrapper(enqueued + 1)} :
              queue' = Append(queue, r)
        /\ UNCHANGED <<config, request_times, stop_signal_received, pc,
                       request, current_time, time_to_wait, now, transportLog,
                       recentStarts, lastResult, callbackLog>>

C19_PopStopStep ==
    (queue # <<>> /\ Head(queue) = STOP /\ Len(queue') < Len(queue)) =>
        /\ queue' = Tail(queue)
        /\ stop_signal_received'
        /\ pc' = "loop"
        /\ UNCHANGED <<config, request_times, request, current_time,
                       time_to_wait, now, history>>

C19_PutNeverWaits ==
    /\ (pc # "throttle" /\ enqueued < MaxItems) => ENABLED AddRequest
    /\ (pc # "throttle" /\ stopsSent < MaxStops) => ENABLED AddStop

C19_Frame ==
    /\ [][C19_PutStep /\ C19_PopStopStep]_vars
    /\ []C19_PutNeverWaits

\* A "STOP" was popped from a queue that still holds two elements, with
\* timestamps recorded and the loop not yet ended.
C19_Witness ==
    /\ stop_signal_received
    /\ pc = "loop"
    /\ request_times # <<>>
    /\ Len(queue) >= 2
    /\ lastResult.url = beforeStop

\* C20: with time_window = 0 and max_requests >= 1 the limiter does nothing:
\* every throttle() call evicts every timestamp recorded before and returns
\* without sleeping, whenever it is called.
C20_ZeroWindowNoOp ==
    (time_window = 0 /\ max_requests >= 1) =>
        /\ pc \notin {"sleep", "crashed"}
        /\ Evict(request_times, now, time_window) = <<>>
        /\ Len(request_times) <= 1
        /\ time_to_wait = 0

\* Three transport calls were started at the same instant with
\* max_requests = 1 and a zero window.
C20_Witness ==
    /\ time_window = 0
    /\ max_requests = 1
    /\ now = 0
    /\ Len(transportLog) >= 3
    /\ request_times = <<0>>

====
